---------------------------- MODULE Spec2Model ----------------------------
(***************************************************************************)
(* Task board: the observable project store (ProjectState), the two        *)
(* status columns (ProjectList) that listen to it, the drop-target         *)
(* handlers of a column and the input form (ProjectInput).                 *)
(*                                                                         *)
(* Objects are modelled with reference semantics: `heap` holds the Project *)
(* objects, an array is a sequence of references into it.  Text is a       *)
(* sequence of one-character strings.                                      *)
(***************************************************************************)
EXTENDS Integers, Sequences, FiniteSets, TLC

(***************************************************************************)
(* Bounds of the model.                                                    *)
(***************************************************************************)
MaxProjects == 2
MaxListeners == 4

(***************************************************************************)
(* Text and numbers.                                                       *)
(***************************************************************************)
Rep(c, n) == [i \in 1..n |-> c]

Space == " "

Digits == <<"0", "1", "2", "3", "4", "5", "6", "7", "8", "9">>

IsDigit(c) == \E i \in 1..10 : Digits[i] = c

DigitVal(c) == (CHOOSE i \in 1..10 : Digits[i] = c) - 1

RECURSIVE TrimStart(_)
TrimStart(s) ==
    IF s # <<>> /\ Head(s) = Space THEN TrimStart(Tail(s)) ELSE s

RECURSIVE TrimEnd(_)
TrimEnd(s) ==
    IF s # <<>> /\ s[Len(s)] = Space THEN TrimEnd(SubSeq(s, 1, Len(s) - 1)) ELSE s

\* String.prototype.trim
Trim(s) == TrimEnd(TrimStart(s))

RECURSIVE DigitsValue(_)
DigitsValue(s) ==
    IF s = <<>> THEN 0
    ELSE 10 * DigitsValue(SubSeq(s, 1, Len(s) - 1)) + DigitVal(s[Len(s)])

NaN == [type |-> "number", nan |-> TRUE, n |-> 0]

Num(k) == [type |-> "number", nan |-> FALSE, n |-> k]

Str(s) == [type |-> "string", s |-> s]

\* The unary plus of `+enteredPeople`, on text made of digits, spaces, a sign
\* and letters that occur in no numeric literal: surrounding white space is
\* dropped, the empty text is 0, a signed run of digits is its value and
\* anything else is NaN.
ToNumber(s) ==
    LET t == Trim(s)
        signed == t # <<>> /\ Head(t) \in {"-", "+"}
        body == IF signed THEN Tail(t) ELSE t
    IN  IF t = <<>> THEN Num(0)
        ELSE IF body # <<>> /\ \A i \in 1..Len(body) : IsDigit(body[i])
             THEN Num(IF signed /\ Head(t) = "-" THEN 0 - DigitsValue(body)
                      ELSE DigitsValue(body))
             ELSE NaN

RECURSIVE NatToString(_)
NatToString(k) ==
    IF k < 10 THEN <<Digits[k + 1]>>
    ELSE NatToString(k \div 10) \o <<Digits[(k % 10) + 1]>>

\* value.toString()
toString(v) ==
    IF v.type = "string" THEN v.s
    ELSE IF v.nan THEN <<"N", "a", "N">>
    ELSE IF v.n < 0 THEN <<"-">> \o NatToString(0 - v.n)
    ELSE NatToString(v.n)

(***************************************************************************)
(* validate.  A Validatable is a function whose domain holds "value" and   *)
(* the options that are set; an option that is not set is not in the       *)
(* domain.  A comparison with NaN is false.                                *)
(***************************************************************************)
Has(input, opt) == opt \in DOMAIN input

\* validate without the maxLength test.
validate_noMaxLength(input) ==
    LET value == input["value"]
        r1 == IF Has(input, "required") /\ input["required"]
              THEN Len(Trim(toString(value))) # 0 ELSE TRUE
        r2 == IF Has(input, "minLength") /\ value.type = "string"
              THEN r1 /\ Len(value.s) >= input["minLength"] ELSE r1
        r4 == IF Has(input, "min") /\ value.type = "number"
              THEN r2 /\ ~value.nan /\ value.n >= input["min"] ELSE r2
        r5 == IF Has(input, "max") /\ value.type = "number"
              THEN r4 /\ ~value.nan /\ value.n <= input["max"] ELSE r4
    IN  r5

\* validate with `>` in place of `>=` in the min test.
validate_exclusiveMin(input) ==
    LET value == input["value"]
        r1 == IF Has(input, "required") /\ input["required"]
              THEN Len(Trim(toString(value))) # 0 ELSE TRUE
        r2 == IF Has(input, "minLength") /\ value.type = "string"
              THEN r1 /\ Len(value.s) >= input["minLength"] ELSE r1
        r3 == IF Has(input, "maxLength") /\ value.type = "string"
              THEN r2 /\ Len(value.s) <= input["maxLength"] ELSE r2
        r4 == IF Has(input, "min") /\ value.type = "number"
              THEN r3 /\ ~value.nan /\ value.n > input["min"] ELSE r3
        r5 == IF Has(input, "max") /\ value.type = "number"
              THEN r4 /\ ~value.nan /\ value.n <= input["max"] ELSE r4
    IN  r5

validate(input) ==
    LET value == input["value"]
        r1 == IF Has(input, "required") /\ input["required"]
              THEN Len(Trim(toString(value))) # 0 ELSE TRUE
        r2 == IF Has(input, "minLength") /\ value.type = "string"
              THEN r1 /\ Len(value.s) >= input["minLength"] ELSE r1
        r3 == IF Has(input, "maxLength") /\ value.type = "string"
              THEN r2 /\ Len(value.s) <= input["maxLength"] ELSE r2
        r4 == IF Has(input, "min") /\ value.type = "number"
              THEN r3 /\ ~value.nan /\ value.n >= input["min"] ELSE r3
        r5 == IF Has(input, "max") /\ value.type = "number"
              THEN r4 /\ ~value.nan /\ value.n <= input["max"] ELSE r4
    IN  r5


(***************************************************************************)
(* The data model.                                                         *)
(***************************************************************************)
ProjectStatus == {"Active", "Finished"}

Project(id, title, description, people, status) ==
    [id |-> id, title |-> title, description |-> description,
     people |-> people, status |-> status]

\* The two ProjectList instances, named by their `type`.
Columns == {"active", "finished"}

\* statusForThisColumn: this.type === 'active' ? Active : Finished
ColumnStatus(type) == IF type = "active" THEN "Active" ELSE "Finished"

\* A callback registered from outside the two columns.
Probe == "probe"

\* The values Math.random().toString() is drawn from.
RandomValues == {"0.1", "0.2"}

VARIABLES
    heap,               \* the Project objects, by reference (1..Len(heap))
    projects,           \* ProjectState.projects: references, in insertion order
    listeners,          \* State.listeners, in registration order
    assignedProjects,   \* ProjectList.assignedProjects of each column
    rendered,           \* the rows under each column's <ul>
    droppable,          \* whether each column's <ul> has class 'droppable'
    titleInput,         \* titleInputElement.value
    descriptionInput,   \* descriptionInputElement.value
    peopleInput,        \* peopleInputElement.value
    alerted,            \* whether the last handler called alert()
    defaultPrevented,   \* whether the last handler called event.preventDefault()
    calls,              \* the listener invocations of the last handler, in order
    raised,             \* whether the last handler threw
    lastEvent,          \* the handler that ran last, with its event's data
    instance,           \* ProjectState.instance: a store object, 0 while unset
    constructed,        \* the number of ProjectState objects constructed
    returned            \* the store objects getInstance has returned

vars == <<heap, projects, listeners, assignedProjects, rendered, droppable,
          titleInput, descriptionInput, peopleInput, alerted,
          defaultPrevented, calls, raised, lastEvent, instance, constructed,
          returned>>

instanceVars == <<instance, constructed, returned>>

storeVars == <<heap, projects, listeners>>

viewVars == <<assignedProjects, rendered>>

formVars == <<titleInput, descriptionInput, peopleInput>>

\* The record of a handler's run: the handler, the element it ran on, the
\* text of its event, and, for a drag, the type list the event advertised
\* and, for a drop, the status the project found had before ("" when none
\* was found).
Event(handler, target, data) ==
    [handler |-> handler, target |-> target, data |-> data,
     types |-> <<>>, prior |-> ""]

Range(seq) == {seq[i] : i \in 1..Len(seq)}

\* The Project objects of an array of references.
Deref(h, arr) == [i \in 1..Len(arr) |-> h[arr[i]]]

\* The store's project data, by value.
StoreData == Deref(heap, projects)

RECURSIVE Filter_reversed(_, _, _)
\* A filter that returns the matching references last first.
Filter_reversed(h, arr, type) ==
    IF arr = <<>> THEN <<>>
    ELSE LET rest == Filter_reversed(h, Tail(arr), type)
         IN  IF h[Head(arr)].status = ColumnStatus(type)
             THEN rest \o <<Head(arr)>> ELSE rest

RECURSIVE Filter(_, _, _)
\* Array.prototype.filter with the column's predicate: a new array of the
\* references whose project has the column's status, in the array's order.
Filter(h, arr, type) ==
    IF arr = <<>> THEN <<>>
    ELSE LET rest == Filter(h, Tail(arr), type)
         IN  IF h[Head(arr)].status = ColumnStatus(type)
             THEN <<Head(arr)>> \o rest ELSE rest

\* Array.prototype.slice(): a new array holding the same references.
Slice(arr) == [i \in 1..Len(arr) |-> arr[i]]

\* renderProjects: the <ul> is emptied and gets one row per assigned project.
RenderRows(h, arr) ==
    [i \in 1..Len(arr) |-> [project |-> arr[i], title |-> h[arr[i]].title]]

\* renderProjects without `listEl.innerHTML = ''`: the new rows follow the
\* rows the column already shows.
renderProjects_noClear(type, h, arr) == rendered[type] \o RenderRows(h, arr)

\* ProjectList.renderProjects of the column `type` holding the array arr: the
\* rows under its <ul> afterwards.
renderProjects(type, h, arr) == RenderRows(h, arr)


(***************************************************************************)
(* ProjectState.                                                           *)
(***************************************************************************)
\* The callback a column registers in configure: filter, assign, render.
\* A column whose callback is registered ends a notification holding the
\* filtered array of the snapshot it was passed.
ColumnListener(h, items, type) == Filter(h, items, type)

\* The loop run from the last listener registered to the first.
Invocations_reversed(ps) ==
    [i \in 1..Len(listeners) |->
        [listener |-> listeners[Len(listeners) + 1 - i], items |-> Slice(ps)]]

\* The loop `for (const listenerFn of this.listeners) listenerFn(this.projects.slice())`
\* over the store's array ps with the heap h: the invocations, in order.
Invocations(ps) ==
    [i \in 1..Len(listeners) |-> [listener |-> listeners[i], items |-> Slice(ps)]]

\* The effect of that loop on the columns, and the log of its invocations.
updateListeners(h, ps) ==
    /\ calls' = Invocations(ps)
    /\ assignedProjects' =
           [c \in Columns |->
               IF \E i \in 1..Len(listeners) : listeners[i] = c
               THEN ColumnListener(h, Slice(ps), c)
               ELSE assignedProjects[c]]
    /\ rendered' =
           [c \in Columns |->
               IF \E i \in 1..Len(listeners) : listeners[i] = c
               THEN renderProjects(c, h, ColumnListener(h, Slice(ps), c))
               ELSE rendered[c]]

\* addListener that also calls the new listener with the current snapshot.
addListener_replay(listenerFn) ==
    /\ Len(listeners) < MaxListeners
    /\ listeners' = Append(listeners, listenerFn)
    /\ lastEvent' = Event("addListener", "store", listenerFn)
    /\ calls' = <<[listener |-> listenerFn, items |-> Slice(projects)]>>
    /\ alerted' = FALSE
    /\ defaultPrevented' = FALSE
    /\ raised' = FALSE
    /\ UNCHANGED <<heap, projects, viewVars, droppable, formVars, instanceVars>>

\* State.addListener, called from outside the columns.
addListener(listenerFn) ==
    /\ Len(listeners) < MaxListeners
    /\ listeners' = Append(listeners, listenerFn)
    /\ lastEvent' = Event("addListener", "store", listenerFn)
    /\ calls' = <<>>
    /\ alerted' = FALSE
    /\ defaultPrevented' = FALSE
    /\ raised' = FALSE
    /\ UNCHANGED <<heap, projects, viewVars, droppable, formVars, instanceVars>>

\* addProject with unshift in place of push: the new project goes first.
addProject_unshift(title, description, numOfPeople, rnd) ==
    LET newProject == Project(rnd, title, description, numOfPeople, "Active")
        h == Append(heap, newProject)
        ps == <<Len(heap) + 1>> \o projects
    IN  /\ heap' = h
        /\ projects' = ps
        /\ updateListeners(h, ps)
        /\ UNCHANGED listeners

\* ProjectState.addProject; rnd is the text of the value Math.random() returns.
addProject(title, description, numOfPeople, rnd) ==
    LET newProject == Project(rnd, title, description, numOfPeople, "Active")
        h == Append(heap, newProject)
        ps == Append(projects, Len(heap) + 1)
    IN  /\ heap' = h
        /\ projects' = ps
        /\ updateListeners(h, ps)
        /\ UNCHANGED listeners

\* Array.prototype.find on the store's array: the index of the first project
\* with the id, 0 when there is none.
FindIndex(id) ==
    IF \E i \in 1..Len(projects) : heap[projects[i]].id = id
    THEN CHOOSE i \in 1..Len(projects) :
             /\ heap[projects[i]].id = id
             /\ \A j \in 1..(i - 1) : heap[projects[j]].id # id
    ELSE 0

\* moveProject without the test that a project was found: the status of
\* `undefined` is written, which throws.
moveProject_noGuard(projectId, newStatus) ==
    LET i == FindIndex(projectId)
    IN  IF i # 0
        THEN LET h == [heap EXCEPT ![projects[i]].status = newStatus]
             IN  /\ heap' = h
                 /\ updateListeners(h, projects)
                 /\ raised' = FALSE
                 /\ UNCHANGED <<projects, listeners>>
        ELSE /\ calls' = <<>>
             /\ raised' = TRUE
             /\ UNCHANGED <<storeVars, viewVars>>

\* moveProject that writes and notifies only when the status differs.
moveProject_guarded(projectId, newStatus) ==
    LET i == FindIndex(projectId)
    IN  IF i # 0 /\ heap[projects[i]].status # newStatus
        THEN LET h == [heap EXCEPT ![projects[i]].status = newStatus]
             IN  /\ heap' = h
                 /\ updateListeners(h, projects)
                 /\ raised' = FALSE
                 /\ UNCHANGED <<projects, listeners>>
        ELSE /\ calls' = <<>>
             /\ raised' = FALSE
             /\ UNCHANGED <<storeVars, viewVars>>

\* ProjectState.moveProject: the project found is given the status and the
\* listeners are notified; an id that matches no project changes nothing.
moveProject(projectId, newStatus) ==
    LET i == FindIndex(projectId)
    IN  IF i # 0
        THEN LET h == [heap EXCEPT ![projects[i]].status = newStatus]
             IN  /\ heap' = h
                 /\ updateListeners(h, projects)
                 /\ raised' = FALSE
                 /\ UNCHANGED <<projects, listeners>>
        ELSE /\ calls' = <<>>
             /\ raised' = FALSE
             /\ UNCHANGED <<storeVars, viewVars>>

(***************************************************************************)
(* ProjectInput.                                                           *)
(***************************************************************************)
gatherUserInput ==
    LET enteredTitle == titleInput
        enteredDescription == descriptionInput
        enteredPeople == peopleInput
        validateTitle ==
            [x \in {"value", "required", "minLength", "maxLength"} |->
                CASE x = "value" -> Str(enteredTitle)
                  [] x = "required" -> TRUE
                  [] x = "minLength" -> 1
                  [] x = "maxLength" -> 15]
        validateDescription ==
            [x \in {"value", "required", "minLength", "maxLength"} |->
                CASE x = "value" -> Str(enteredDescription)
                  [] x = "required" -> TRUE
                  [] x = "minLength" -> 5
                  [] x = "maxLength" -> 50]
        validatePeople ==
            [x \in {"value", "required", "min", "max"} |->
                CASE x = "value" -> ToNumber(enteredPeople)
                  [] x = "required" -> TRUE
                  [] x = "min" -> 1
                  [] x = "max" -> 10]
    IN  IF validate(validateTitle) /\ validate(validateDescription)
           /\ validate(validatePeople)
        THEN [ok |-> TRUE, title |-> enteredTitle, desc |-> enteredDescription,
              people |-> ToNumber(enteredPeople)]
        ELSE [ok |-> FALSE]


clearInputs ==
    /\ titleInput' = <<>>
    /\ descriptionInput' = <<>>
    /\ peopleInput' = <<>>

\* The submit handler of the form.
submitHandler ==
    LET userInput == gatherUserInput
    IN  /\ defaultPrevented' = TRUE
        /\ alerted' = ~userInput.ok
        /\ IF userInput.ok
           THEN /\ Len(projects) < MaxProjects
                /\ \E rnd \in RandomValues :
                       addProject(userInput.title, userInput.desc,
                                  userInput.people, rnd)
           ELSE /\ calls' = <<>>
                /\ UNCHANGED <<storeVars, viewVars>>
        /\ clearInputs
        /\ raised' = FALSE
        /\ lastEvent' = Event("submit", "form", "")
        /\ UNCHANGED <<droppable, instanceVars>>

(***************************************************************************)
(* ProjectList: the drop target.                                           *)
(***************************************************************************)
\* event.dataTransfer && event.dataTransfer.types[0] === 'text/plain'
AcceptsDrag(dataTransfer) ==
    /\ dataTransfer.present
    /\ Len(dataTransfer.types) >= 1
    /\ dataTransfer.types[1] = "text/plain"

\* dragOverHandler that also gives every project the column's status when
\* it accepts the drag.
dragOverHandler_moves(type, dataTransfer) ==
    /\ IF AcceptsDrag(dataTransfer)
       THEN /\ defaultPrevented' = TRUE
            /\ droppable' = [droppable EXCEPT ![type] = TRUE]
            /\ heap' = [r \in 1..Len(heap) |->
                            [heap[r] EXCEPT !.status = ColumnStatus(type)]]
       ELSE /\ defaultPrevented' = FALSE
            /\ UNCHANGED <<droppable, heap>>
    /\ calls' = <<>>
    /\ alerted' = FALSE
    /\ raised' = FALSE
    /\ lastEvent' = [Event("dragover", type, "") EXCEPT !.types = dataTransfer.types]
    /\ UNCHANGED <<projects, listeners, viewVars, formVars, instanceVars>>

\* ProjectList.dragOverHandler of the column `type`.
dragOverHandler(type, dataTransfer) ==
    /\ IF AcceptsDrag(dataTransfer)
       THEN /\ defaultPrevented' = TRUE
            /\ droppable' = [droppable EXCEPT ![type] = TRUE]
       ELSE /\ defaultPrevented' = FALSE
            /\ UNCHANGED droppable
    /\ calls' = <<>>
    /\ alerted' = FALSE
    /\ raised' = FALSE
    /\ lastEvent' = [Event("dragover", type, "") EXCEPT !.types = dataTransfer.types]
    /\ UNCHANGED <<storeVars, viewVars, formVars, instanceVars>>

dragLeaveHandler(type) ==
    /\ droppable' = [droppable EXCEPT ![type] = FALSE]
    /\ defaultPrevented' = FALSE
    /\ calls' = <<>>
    /\ alerted' = FALSE
    /\ raised' = FALSE
    /\ lastEvent' = Event("dragleave", type, "")
    /\ UNCHANGED <<storeVars, viewVars, formVars, instanceVars>>

\* DataTransfer.getData('text/plain'): the text the drag carries, the empty
\* string when it carries none.
getData(dataTransfer) == dataTransfer.text

dropHandler(type, dataTransfer) ==
    LET projId == getData(dataTransfer)
    IN  /\ moveProject(projId, IF type = "active" THEN "Active" ELSE "Finished")
        /\ defaultPrevented' = FALSE
        /\ alerted' = FALSE
        /\ lastEvent' = [Event("drop", type, projId) EXCEPT
                             !.prior = IF FindIndex(projId) = 0 THEN ""
                                       ELSE heap[projects[FindIndex(projId)]].status]
        /\ UNCHANGED <<droppable, formVars, instanceVars>>

(***************************************************************************)
(* The environment: what the user types and drags.                         *)
(***************************************************************************)
\* The two forms that pass validation.
ValidForms ==
    {<<<<"a">>, Rep("d", 5), <<"1">>>>, <<Rep("b", 15), Rep("d", 50), <<"1", "0">>>>}

\* Texts that fail as a title, as a description, as a number of people.
BadTitles == {<<>>, <<Space, Space>>, Rep("b", 16)}

BadDescriptions == {Rep("d", 4), Rep(Space, 5), Rep("d", 51)}

BadPeople == {<<>>, <<"0">>, <<"1", "1">>, <<"z">>, <<"-", "1">>}

\* What the user fills in before a submission: a form that passes, and a
\* form that fails.
FormInputs ==
    {<<<<"a">>, Rep("d", 5), <<"1">>>>, <<Rep("b", 16), Rep("d", 5), <<"1">>>>}

\* The forms that pass, and every form that differs from the first of them
\* in one field, which fails.
BoundaryForms ==
    ValidForms
    \cup {<<t, Rep("d", 5), <<"1">>>> : t \in BadTitles}
    \cup {<<<<"a">>, d, <<"1">>>> : d \in BadDescriptions}
    \cup {<<<<"a">>, Rep("d", 5), p>> : p \in BadPeople}

EnterInput(form) ==
    /\ titleInput' = form[1]
    /\ descriptionInput' = form[2]
    /\ peopleInput' = form[3]
    /\ lastEvent' = Event("input", "form", "")
    /\ calls' = <<>>
    /\ alerted' = FALSE
    /\ defaultPrevented' = FALSE
    /\ raised' = FALSE
    /\ UNCHANGED <<storeVars, viewVars, droppable, instanceVars>>

DataTransfer(types, text) == [present |-> TRUE, types |-> types, text |-> text]

NoDataTransfer == [present |-> FALSE, types |-> <<>>, text |-> ""]

\* The drags that pass over a column: of a project row, of a file, and an
\* event that carries no dataTransfer.
DragOverEvents ==
    {DataTransfer(<<"text/plain">>, ""), DataTransfer(<<"Files">>, ""), NoDataTransfer}

\* An id no project has.
StaleId == "0.9"

\* The drags dropped on a column: the text is a project's id, or is stale.
DropEvents ==
    {DataTransfer(<<"text/plain">>, id) : id \in RandomValues \cup {StaleId}}

(***************************************************************************)
(* The program: the module's top level constructs the store, the form and  *)
(* the active and the finished column, in this order.                      *)
(***************************************************************************)
Init ==
    /\ heap = <<>>
    /\ projects = <<>>
    /\ listeners = <<"active", "finished">>
    /\ assignedProjects = [c \in Columns |-> <<>>]
    /\ rendered = [c \in Columns |-> <<>>]
    /\ droppable = [c \in Columns |-> FALSE]
    /\ titleInput = <<>>
    /\ descriptionInput = <<>>
    /\ peopleInput = <<>>
    /\ alerted = FALSE
    /\ defaultPrevented = FALSE
    /\ calls = <<>>
    /\ raised = FALSE
    /\ lastEvent = Event("init", "", "")
    /\ instance = 1
    /\ constructed = 1
    /\ returned = {1}

Step(forms, overs, drops) ==
    \/ \E form \in forms : EnterInput(form)
    \/ submitHandler
    \/ \E type \in Columns, dt \in overs : dragOverHandler(type, dt)
    \/ \E type \in Columns : dragLeaveHandler(type)
    \/ \E type \in Columns, dt \in drops : dropHandler(type, dt)
    \/ addListener(Probe)

Next == Step(FormInputs, DragOverEvents, DropEvents)

Spec == Init /\ [][Next]_vars

\* The same program with every boundary form typed in.
NextForm == Step(BoundaryForms, {DataTransfer(<<"text/plain">>, "")},
                 {DataTransfer(<<"text/plain">>, "0.1")})

SpecForm == Init /\ [][NextForm]_vars

\* The type lists a drag can advertise: a project row's, a file's, text
\* selected in a page (plain text with HTML, in either order), and none.
DragTypeLists ==
    {<<"text/plain">>, <<"Files">>, <<"text/plain", "text/html">>,
     <<"text/html", "text/plain">>, <<>>}

\* The same program with every kind of drag passing over the columns.
NextDrag ==
    Step({<<<<"a">>, Rep("d", 5), <<"1">>>>},
         {DataTransfer(types, "") : types \in DragTypeLists} \cup {NoDataTransfer},
         {DataTransfer(<<"text/plain">>, "0.1")})

SpecDrag == Init /\ [][NextDrag]_vars

\* Titles of 0, 1, 15 and 16 characters, one of them a single space, and
\* people texts for 0, 1, 10 and 11, each with a description that passes.
EdgeTitles == {<<>>, <<"a">>, <<Space>>, Rep("b", 15), Rep("b", 16)}

EdgePeople == {<<"0">>, <<"1">>, <<"1", "0">>, <<"1", "1">>}

EdgeForms == {<<t, Rep("d", 5), p>> : t \in EdgeTitles, p \in EdgePeople}

\* The program with one of these forms filled in.
InitEdge ==
    /\ heap = <<>>
    /\ projects = <<>>
    /\ listeners = <<"active", "finished">>
    /\ assignedProjects = [c \in Columns |-> <<>>]
    /\ rendered = [c \in Columns |-> <<>>]
    /\ droppable = [c \in Columns |-> FALSE]
    /\ \E form \in EdgeForms :
           /\ titleInput = form[1]
           /\ descriptionInput = form[2]
           /\ peopleInput = form[3]
    /\ alerted = FALSE
    /\ defaultPrevented = FALSE
    /\ calls = <<>>
    /\ raised = FALSE
    /\ lastEvent = Event("input", "form", "")
    /\ instance = 1
    /\ constructed = 1
    /\ returned = {1}

NextEdge ==
    \/ \E form \in EdgeForms : EnterInput(form)
    \/ submitHandler

SpecEdge == InitEdge /\ [][NextEdge]_vars


(***************************************************************************)
(* The singleton.  The module's top level calls getInstance once and       *)
(* constructs the form and the two columns; any code may call getInstance  *)
(* again later.                                                            *)
(***************************************************************************)
\* getInstance without `if (this.instance) return this.instance`.
getInstance_alwaysNew ==
    /\ constructed' = constructed + 1
    /\ instance' = constructed + 1
    /\ returned' = returned \cup {constructed + 1}

\* ProjectState.getInstance: the store objects are numbered as constructed.
getInstance ==
    IF instance # 0
    THEN /\ returned' = returned \cup {instance}
         /\ UNCHANGED <<instance, constructed>>
    ELSE /\ constructed' = constructed + 1
         /\ instance' = constructed + 1
         /\ returned' = returned \cup {constructed + 1}

\* The state before the module's top level has run.
InitLoad ==
    /\ heap = <<>>
    /\ projects = <<>>
    /\ listeners = <<>>
    /\ assignedProjects = [c \in Columns |-> <<>>]
    /\ rendered = [c \in Columns |-> <<>>]
    /\ droppable = [c \in Columns |-> FALSE]
    /\ titleInput = <<>>
    /\ descriptionInput = <<>>
    /\ peopleInput = <<>>
    /\ alerted = FALSE
    /\ defaultPrevented = FALSE
    /\ calls = <<>>
    /\ raised = FALSE
    /\ lastEvent = Event("load", "", "")
    /\ instance = 0
    /\ constructed = 0
    /\ returned = {}

\* The module's top level: `const projectState = ProjectState.getInstance()`,
\* then the form, the active column and the finished column are constructed;
\* each column registers its listener.
Load ==
    /\ lastEvent.handler = "load"
    /\ getInstance
    /\ listeners' = listeners \o <<"active", "finished">>
    /\ lastEvent' = Event("init", "", "")
    /\ UNCHANGED <<heap, projects, viewVars, droppable, formVars, alerted,
                   defaultPrevented, calls, raised>>

\* A later call of getInstance.
CallGetInstance ==
    /\ lastEvent.handler # "load"
    /\ getInstance
    /\ lastEvent' = Event("getInstance", "store", "")
    /\ calls' = <<>>
    /\ alerted' = FALSE
    /\ defaultPrevented' = FALSE
    /\ raised' = FALSE
    /\ UNCHANGED <<storeVars, viewVars, droppable, formVars>>

NextInstance ==
    \/ Load
    \/ CallGetInstance
    \/ /\ lastEvent.handler # "load"
       /\ \/ EnterInput(<<<<"a">>, Rep("d", 5), <<"1">>>>)
          \/ submitHandler
          \/ \E type \in Columns, dt \in DropEvents : dropHandler(type, dt)
          \/ addListener(Probe)

SpecInstance == InitLoad /\ [][NextInstance]_vars

(***************************************************************************)
(* Client code that writes to what the store handed out: to the array a    *)
(* listener was passed (calls[k].items), to a column's assignedProjects,   *)
(* or to a Project object reached through either.                          *)
(***************************************************************************)
Pop(arr) == SubSeq(arr, 1, Len(arr) - 1)

\* Array.prototype.pop on a handed-out array: the one an outside callback
\* was passed, or a column's.
MutateArray ==
    /\ \/ \E k \in 1..Len(calls) :
              /\ calls[k].listener = Probe
              /\ calls[k].items # <<>>
              /\ calls' = [calls EXCEPT ![k].items = Pop(@)]
              /\ UNCHANGED assignedProjects
       \/ \E type \in Columns :
              /\ assignedProjects[type] # <<>>
              /\ assignedProjects' = [assignedProjects EXCEPT ![type] = Pop(@)]
              /\ UNCHANGED calls
    /\ lastEvent' = Event("mutate", "array", "")
    /\ UNCHANGED <<storeVars, rendered, droppable, formVars, alerted,
                   defaultPrevented, raised, instanceVars>>

\* An assignment to the status of an element of a handed-out array.
MutateElement ==
    /\ \E r \in UNION ({Range(calls[k].items) : k \in 1..Len(calls)}
                       \cup {Range(assignedProjects[type]) : type \in Columns}) :
           \E status \in ProjectStatus :
               heap' = [heap EXCEPT ![r].status = status]
    /\ lastEvent' = Event("mutate", "element", "")
    /\ UNCHANGED <<projects, listeners, viewVars, calls, droppable, formVars,
                   alerted, defaultPrevented, raised, instanceVars>>

\* The program with such client code, a user who submits forms that pass and
\* drops rows on the columns.
NextMut ==
    \/ \E form \in ValidForms : EnterInput(form)
    \/ submitHandler
    \/ \E type \in Columns :
           dropHandler(type, DataTransfer(<<"text/plain">>, "0.1"))
    \/ addListener(Probe)
    \/ MutateArray
    \/ MutateElement

SpecMut == Init /\ [][NextMut]_vars

(***************************************************************************)
(* Properties.                                                             *)
(***************************************************************************)
\* A step that is a call of addProject with the values of the form.
AddProjectCalled ==
    \E rnd \in RandomValues :
        addProject(titleInput, descriptionInput, ToNumber(peopleInput), rnd)

\* C1: after any sequence of addProject and moveProject calls the two
\* columns partition the store: the lengths of their cached lists, and of
\* their rendered rows, sum to the number of addProject calls made, and no
\* project id is in both columns.
C1_ColumnsPartitionStore ==
    /\ Len(assignedProjects["active"]) + Len(assignedProjects["finished"])
           = Len(heap)
    /\ Len(rendered["active"]) + Len(rendered["finished"]) = Len(heap)
    /\ \A r \in Range(assignedProjects["active"]) :
           \A q \in Range(assignedProjects["finished"]) : heap[r].id # heap[q].id

\* C2: a call of addProject makes the store one project longer; the new
\* project is the last one, is Active and has the values passed; every
\* project already in the store keeps its position and all of its fields.
C2_AddProjectAppends ==
    [][AddProjectCalled =>
          /\ Len(projects') = Len(projects) + 1
          /\ LET new == heap'[projects'[Len(projects')]]
             IN  /\ new.status = "Active"
                 /\ new.title = titleInput
                 /\ new.description = descriptionInput
                 /\ new.people = ToNumber(peopleInput)
          /\ \A i \in 1..Len(projects) :
                 /\ projects'[i] = projects[i]
                 /\ heap'[projects'[i]] = heap[projects[i]]]_vars

\* An addProject call has just added a project to a store that held one.
C2_Witness ==
    /\ lastEvent.handler = "submit"
    /\ ~alerted
    /\ Len(projects) >= 2
    /\ heap[projects[1]].status = "Finished"

\* C3: no two projects of the store have the same id.
C3_UniqueIds ==
    \A i, j \in 1..Len(projects) :
        i # j => heap[projects[i]].id # heap[projects[j]].id

\* C4: a call of addProject invokes every registered listener before it
\* returns, once per registration and in the order of registration, each
\* time with the whole project sequence, the new project included.
C4_AddProjectNotifiesInOrder ==
    [][AddProjectCalled =>
          /\ Len(calls') = Len(listeners)
          /\ \A i \in 1..Len(listeners) :
                 /\ calls'[i].listener = listeners[i]
                 /\ calls'[i].items = projects'
                 /\ Len(calls'[i].items) = Len(projects) + 1
                 /\ Deref(heap', calls'[i].items) = StoreData']_vars

\* An addProject call has notified a callback that is registered twice.
C4_Witness ==
    /\ lastEvent.handler = "submit"
    /\ ~alerted
    /\ Len(listeners) = 4
    /\ listeners[3] = listeners[4]
    /\ Len(calls) = 4
    /\ Len(projects) >= 2


\* C5: writing to a snapshot a listener was passed, or to a column's
\* assignedProjects, changes nothing of the store: not the members or the
\* order of its sequence, and no field of a project it holds.
C5_HandedOutCopiesIsolated ==
    [][(MutateArray \/ MutateElement) =>
          /\ projects' = projects
          /\ StoreData' = StoreData]_vars

\* C6: for a project P of the store and a status S, after
\* moveProject(P.id, S) exactly one project of the store has the id P.id and
\* its status is S; the other projects keep their status, and the sequence
\* its length and order.
C6_MoveSetsExactlyOne ==
    [][\A r \in Range(projects) : \A S \in ProjectStatus :
          moveProject(heap[r].id, S) =>
              /\ projects' = projects
              /\ Cardinality({i \in 1..Len(projects') :
                                 StoreData'[i].id = heap[r].id}) = 1
              /\ \A i \in 1..Len(projects') :
                     IF StoreData'[i].id = heap[r].id
                     THEN StoreData'[i].status = S
                     ELSE StoreData'[i] = StoreData[i]]_vars

\* C7: moveProject with an id that matches no project of the store throws
\* nothing and leaves the project sequence as it was: its members, their
\* order and every field of every project.
C7_MoveUnknownIdIsNoOp ==
    [][(lastEvent'.handler = "drop" /\ FindIndex(lastEvent'.data) = 0) =>
          /\ ~raised'
          /\ projects' = projects
          /\ StoreData' = StoreData]_vars

\* A stale id has just been dropped on a column while the store held projects.
C7_Witness ==
    /\ lastEvent.handler = "drop"
    /\ lastEvent.data = StaleId
    /\ Len(projects) >= 1
    /\ ~raised

\* C8: dropping the id of a project P on a column gives P the status of the
\* column; after a drop on the finished column P is not in the active
\* column's list and is in the finished column's list, under the same title.
C8_DropMovesProject ==
    [][\A r \in Range(projects) :
          (lastEvent'.handler = "drop" /\ lastEvent'.data = heap[r].id) =>
              /\ heap'[r].status = ColumnStatus(lastEvent'.target)
              /\ lastEvent'.target = "finished" =>
                     /\ r \notin Range(assignedProjects'["active"])
                     /\ r \in Range(assignedProjects'["finished"])
                     /\ \A row \in Range(rendered'["active"]) : row.project # r
                     /\ \E row \in Range(rendered'["finished"]) :
                            row.project = r /\ row.title = heap[r].title]_vars

\* C9: a submission that fails validation alerts the user and leaves the
\* title, the description and the people field as the user filled them in.
C9_FailedSubmitKeepsFields ==
    [][(lastEvent'.handler = "submit" /\ ~gatherUserInput.ok) =>
          /\ alerted'
          /\ UNCHANGED formVars]_vars

\* The bounds of a project of the store: a title that is not blank, of 1 to
\* 15 characters; a description that is not blank, of 5 to 50 characters; a
\* number of people from 1 to 10.
WithinBounds(title, description, people) ==
    /\ Trim(title) # <<>>
    /\ Len(title) \in 1..15
    /\ Trim(description) # <<>>
    /\ Len(description) \in 5..50
    /\ people.type = "number"
    /\ ~people.nan
    /\ people.n \in 1..10

\* C10: a submission calls addProject only if the three fields are within
\* the bounds; a submission that is not adds no project, leaves the store as
\* it was and notifies no listener; so every project of the store is within
\* the bounds.
C10_OnlyValidFormsReachStore ==
    /\ [](\A i \in 1..Len(projects) :
              WithinBounds(StoreData[i].title, StoreData[i].description,
                           StoreData[i].people))
    /\ [][(/\ lastEvent'.handler = "submit"
           /\ ~WithinBounds(titleInput, descriptionInput, ToNumber(peopleInput))) =>
              /\ projects' = projects
              /\ heap' = heap
              /\ calls' = <<>>]_vars

\* A form outside the bounds has just been submitted to a store with projects.
C10_Witness ==
    /\ lastEvent.handler = "submit"
    /\ alerted
    /\ calls = <<>>
    /\ Len(projects) >= 1


\* C11 as stated: with a description and a number of people that pass, every
\* title of 1 or of 15 characters passes and every title of 0 or of 16
\* characters fails; with a title and a description that pass, the people
\* values 1 and 10 pass and 0 and 11 fail.
C11_EdgesAsStated ==
    [][lastEvent'.handler = "submit" =>
          LET people == ToNumber(peopleInput).n
          IN  /\ (Len(titleInput) \in {1, 15} /\ people \in {1, 10}) => ~alerted'
              /\ Len(titleInput) \in {0, 16} => alerted'
              /\ people \in {0, 11} => alerted']_vars

\* C11, amended: the same for titles that are not blank; a title of white
\* space only fails, also when it has 1 character.
C11_EdgesOfNonBlankTitles ==
    [][lastEvent'.handler = "submit" =>
          LET people == ToNumber(peopleInput).n
          IN  /\ (Len(titleInput) \in {1, 15} /\ Trim(titleInput) # <<>>
                  /\ people \in {1, 10}) => ~alerted'
              /\ Len(titleInput) \in {0, 16} => alerted'
              /\ Trim(titleInput) = <<>> => alerted'
              /\ people \in {0, 11} => alerted']_vars

\* A title of 15 characters with 10 people has just passed.
C11_Witness ==
    /\ lastEvent.handler = "submit"
    /\ ~alerted
    /\ Len(projects) >= 1
    /\ Len(heap[projects[Len(projects)]].title) = 15
    /\ heap[projects[Len(projects)]].people = Num(10)


\* C12: getInstance creates the store on its first call and afterwards
\* returns that same object: at most one ProjectState is ever constructed,
\* every reference getInstance has returned is the one instance, and so the
\* listeners and projects registered through one are those seen through any
\* other.
C12_OneStoreInstance ==
    /\ constructed <= 1
    /\ returned \subseteq {instance}
    /\ lastEvent.handler # "load" =>
           /\ instance = 1
           /\ constructed = 1
           /\ returned = {1}

\* getInstance has just been called again, after a listener was registered
\* and a project added.
C12_Witness ==
    /\ lastEvent.handler = "getInstance"
    /\ Len(listeners) >= 3
    /\ Len(projects) >= 1
    /\ returned = {1}


\* C13: addListener invokes no listener and leaves the project sequence, the
\* projects and what the columns show as they are; a listener is invoked only
\* in a step that calls addProject (a submission that passes) or moveProject
\* (a drop), so a listener registered when projects exist is first called by
\* the next mutation.
C13_AddListenerIsSilent ==
    [][/\ lastEvent'.handler = "addListener" =>
              /\ calls' = <<>>
              /\ projects' = projects
              /\ heap' = heap
              /\ UNCHANGED viewVars
       /\ calls' # <<>> =>
              \/ lastEvent'.handler = "submit" /\ AddProjectCalled
              \/ /\ lastEvent'.handler = "drop"
                 /\ \E S \in ProjectStatus : moveProject(lastEvent'.data, S)]_vars

\* A listener has just been registered while the store holds a project, and
\* nothing was called.
C13_Witness ==
    /\ lastEvent.handler = "addListener"
    /\ Len(projects) >= 1
    /\ listeners[Len(listeners)] = Probe
    /\ calls = <<>>

C15_DropClearsMarker ==
    [][/\ (lastEvent'.handler = "dragover" /\ defaultPrevented') =>
              droppable'[lastEvent'.target]
       /\ lastEvent'.handler = "dragleave" => ~droppable'[lastEvent'.target]
       /\ (lastEvent'.handler = "drop" /\ calls' # <<>>) =>
              ~droppable'[lastEvent'.target]]_vars


\* C16: a drag-over prevents the default and marks the column if and only if
\* the drag's type list holds text/plain, at any position; a drag whose list
\* does not hold it leaves the default and the markers alone.
C16_AcceptsAnyPlainText ==
    [][lastEvent'.handler = "dragover" =>
          LET plain == "text/plain" \in Range(lastEvent'.types)
          IN  /\ plain <=> defaultPrevented'
              /\ plain => droppable'[lastEvent'.target]
              /\ ~plain => UNCHANGED droppable]_vars


\* C17: each column shows exactly one row per project of its cached list, in
\* the list's order, and the cached list is the filter of the store's
\* projects as of the last notification: earlier lists and rows leave nothing
\* behind, so rows neither accumulate nor repeat.
C17_RowsAreTheCachedList ==
    \A c \in Columns :
        /\ Len(rendered[c]) = Len(assignedProjects[c])
        /\ \A i \in 1..Len(rendered[c]) :
               /\ rendered[c][i].project = assignedProjects[c][i]
               /\ rendered[c][i].title = heap[assignedProjects[c][i]].title
        /\ \A i, j \in 1..Len(rendered[c]) :
               i # j => rendered[c][i].project # rendered[c][j].project
        /\ assignedProjects[c] = Filter(heap, projects, c)

\* Both columns have rendered several times: two projects were added and a
\* drop has just moved one, so that each column shows one row.
C17_Witness ==
    /\ lastEvent.handler = "drop"
    /\ calls # <<>>
    /\ Len(projects) = 2
    /\ Len(rendered["active"]) = 1
    /\ Len(rendered["finished"]) = 1


\* C18: in every step (a form input, a submission, a drag-over, a drag-leave,
\* a drop, an addListener call) every project that exists keeps its id, title,
\* description and people, and keeps its status unless the step is a drop
\* whose moveProject call names the project's id; projects are never removed.
C18_OnlyMoveChangesAProject ==
    [][/\ Len(heap') >= Len(heap)
       /\ \A r \in 1..Len(heap) :
              /\ heap'[r].id = heap[r].id
              /\ heap'[r].title = heap[r].title
              /\ heap'[r].description = heap[r].description
              /\ heap'[r].people = heap[r].people
              /\ heap'[r].status # heap[r].status =>
                     /\ lastEvent'.handler = "drop"
                     /\ lastEvent'.data = heap[r].id
                     /\ moveProject(heap[r].id, heap'[r].status)]_vars

\* Of two projects, a drop has just changed the status of the one it named
\* and left the other as it was.
C18_Witness ==
    /\ lastEvent.handler = "drop"
    /\ lastEvent.prior # ""
    /\ lastEvent.prior # ColumnStatus(lastEvent.target)
    /\ Len(projects) = 2
    /\ \E r \in 1..Len(heap) : heap[r].id # lastEvent.data


\* C19: the store keeps its projects in the order of their addProject calls
\* (the order in which the Project objects were created), and each column's
\* cached list and rows follow that order, whatever moves were made: of two
\* projects in a column the one added first comes first.
C19_ColumnsInInsertionOrder ==
    /\ \A i \in 1..Len(projects) : projects[i] = i
    /\ \A c \in Columns :
           /\ \A i, j \in 1..Len(assignedProjects[c]) :
                  i < j => assignedProjects[c][i] < assignedProjects[c][j]
           /\ \A i, j \in 1..Len(rendered[c]) :
                  i < j => rendered[c][i].project < rendered[c][j].project

\* The project added first was Finished and a drop has just moved it back to
\* Active: it is again the first of the two rows of the active column.
C19_Witness ==
    /\ lastEvent.handler = "drop"
    /\ lastEvent.target = "active"
    /\ lastEvent.prior = "Finished"
    /\ Len(projects) = 2
    /\ lastEvent.data = heap[1].id
    /\ assignedProjects["active"] = <<1, 2>>
    /\ Len(rendered["active"]) = 2
    /\ rendered["active"][1].project = 1

=============================================================================
